---- MODULE Spec2Model ----
(***************************************************************************)
(* A model of build_pytorch.py: the CUDA 11.8 wheel build driver.          *)
(*                                                                         *)
(*   Spec          main(): setup, toolchain location, the per-Python loop  *)
(*                 (generate wrapper, run it, recover wheels), final scan. *)
(*   SpecLocate    get_manywheel_path called repeatedly on one filesystem. *)
(*   SpecDeps      setup_dependency_bundling and the wrapper's arrays, for *)
(*                 every OS name and USE_CUSPARSELT setting.               *)
(*   SpecRoundTrip ";".join followed by the generator's split(";").        *)
(*                                                                         *)
(* A Python str is a sequence of text pieces (TLA+ strings).  The pieces   *)
(* the code looks for (";", ".", a digit, "torch", an OS family name) are  *)
(* always pieces of their own, so split, join, int and `in` are computed   *)
(* on the sequence as Python computes them on characters.                  *)
(***************************************************************************)
EXTENDS Integers, Sequences, FiniteSets, TLC

VARIABLES
    pc,             \* position of the process
    argVersion,     \* args.pytorch_version
    pyVersions,     \* args.python_versions.split(',')
    osName,         \* SpecDeps: what the os-release awk command prints
    environ,        \* os.environ (the keys the model follows)
    deps,           \* deps_list / deps_soname of setup_dependency_bundling
    manywheel_path, \* main's manywheel_path
    script,         \* /tmp/build_wrapper.sh as last written
    fs,             \* the filesystem: wheel directories, toolchain trees
    cmdLog,         \* every subprocess started, in order
    events,         \* wrapper executions and scanner invocations, in order
    idx,            \* number of loop iterations started
    exitStatus,     \* the process's exit status once it has ended
    error,          \* the exception that ended the process, "" if none
    calls           \* SpecLocate: the outcome of each get_manywheel_path call

vars == <<pc, argVersion, pyVersions, osName, environ, deps, manywheel_path,
          script, fs, cmdLog, events, idx, exitStatus, error, calls>>

----------------------------------------------------------------------------
(* Bounds *)

MaxVersions == 2    \* requested Python versions per run
MaxParts == 3       \* dot-separated parts of a version string
MaxCalls == 2       \* get_manywheel_path calls in SpecLocate
MaxItems == 2       \* items of a list in SpecRoundTrip
MaxItemLen == 2     \* pieces of an item in SpecRoundTrip

----------------------------------------------------------------------------
(* str, list and os.environ primitives *)

\* sep.join(items)
RECURSIVE Join(_, _)
Join(items, sep) ==
    IF items = <<>> THEN <<>>
    ELSE IF Len(items) = 1 THEN items[1]
    ELSE items[1] \o sep \o Join(Tail(items), sep)

RECURSIVE SplitFrom(_, _, _, _)
SplitFrom(s, c, cur, acc) ==
    IF s = <<>> THEN Append(acc, cur)
    ELSE IF Head(s) = c THEN SplitFrom(Tail(s), c, <<>>, Append(acc, cur))
    ELSE SplitFrom(Tail(s), c, Append(cur, Head(s)), acc)

\* A split that drops empty fields, as str.split() without a separator does.
SplitDropEmpty(s, c) ==
    LET all == SplitFrom(s, c, <<>>, <<>>)
    IN  SelectSeq(all, LAMBDA x : x # <<>>)

\* s.split(c): every field, empty ones included; "" gives [""].
Split(s, c) == SplitFrom(s, c, <<>>, <<>>)

\* piece in s
Contains(s, piece) == \E i \in 1..Len(s) : s[i] = piece

\* os.environ.get(key, default)
EnvGet(env, key, default) == IF key \in DOMAIN env THEN env[key] ELSE default

\* os.environ[key] = value
EnvSet(env, key, value) ==
    [k \in (DOMAIN env) \cup {key} |-> IF k = key THEN value ELSE env[k]]

Str(piece) == <<piece>>

----------------------------------------------------------------------------
(* setup_dependency_bundling *)

\* What awk can print for NAME= in /etc/os-release.
OsNames ==
    { Str("CentOS Linux"), Str("AlmaLinux"), Str("Red Hat Enterprise Linux"),
      Str("Ubuntu"), Str("Debian GNU/Linux"), Str("Rocky Linux"),
      <<"Ubuntu", " on ", "CentOS Linux">>, <<>> }

\* Settings of USE_CUSPARSELT: <<>> is the empty string; unset is no key.
FlagValues == { Str("1"), Str("0"), Str("true"), <<>> }

CudaPath(soname) == <<"/usr/local/cuda/lib64/", soname>>

LibgompPath(os_name) ==
    IF \/ Contains(os_name, "CentOS Linux")
       \/ Contains(os_name, "AlmaLinux")
       \/ Contains(os_name, "Red Hat Enterprise Linux")
    THEN <<"/usr/lib64/", "libgomp.so.1">>
    ELSE IF Contains(os_name, "Ubuntu")
    THEN <<"/usr/lib/x86_64-linux-gnu/", "libgomp.so.1">>
    ELSE <<"/usr/lib64/", "libgomp.so.1">>

\* The cusparseLt entry with its soname forgotten.
CusparseLtEntry_PathOnly(env) ==
    IF EnvGet(env, "USE_CUSPARSELT", Str("1")) = Str("1")
    THEN [list |-> << CudaPath("libcusparseLt.so.0") >>, soname |-> <<>>]
    ELSE [list |-> <<>>, soname |-> <<>>]

\* What the USE_CUSPARSELT test appends to the two lists.
CusparseLtEntry(env) ==
    IF EnvGet(env, "USE_CUSPARSELT", Str("1")) = Str("1")
    THEN [list |-> << CudaPath("libcusparseLt.so.0") >>,
          soname |-> << Str("libcusparseLt.so.0") >>]
    ELSE [list |-> <<>>, soname |-> <<>>]

cuda_libs ==
    <<
       <<CudaPath("libcudnn_adv.so.9"), Str("libcudnn_adv.so.9")>>,
       <<CudaPath("libcudnn_cnn.so.9"), Str("libcudnn_cnn.so.9")>>,
       <<CudaPath("libcudnn_graph.so.9"), Str("libcudnn_graph.so.9")>>,
       <<CudaPath("libcudnn_ops.so.9"), Str("libcudnn_ops.so.9")>>,
       <<CudaPath("libcudnn_engines_runtime_compiled.so.9"), Str("libcudnn_engines_runtime_compiled.so.9")>>,
       <<CudaPath("libcudnn_engines_precompiled.so.9"), Str("libcudnn_engines_precompiled.so.9")>>,
       <<CudaPath("libcudnn_heuristic.so.9"), Str("libcudnn_heuristic.so.9")>>,
       <<CudaPath("libcudnn.so.9"), Str("libcudnn.so.9")>>,
       <<CudaPath("libcublas.so.11"), Str("libcublas.so.11")>>,
       <<CudaPath("libcublasLt.so.11"), Str("libcublasLt.so.11")>>,
       <<CudaPath("libcudart.so.11.0"), Str("libcudart.so.11.0")>>,
       <<CudaPath("libnvToolsExt.so.1"), Str("libnvToolsExt.so.1")>>,
       <<CudaPath("libnvrtc.so.11.2"), Str("libnvrtc.so.11.2")>>,
       <<CudaPath("libnvrtc-builtins.so.11.8"), Str("libnvrtc-builtins.so.11.8")>>
    >>

\* deps_list and deps_soname as the function leaves them.
DepsLists(os_name, env) ==
    LET lt == CusparseLtEntry(env)
    IN  [list   |-> << LibgompPath(os_name) >> \o lt.list
                      \o [i \in 1..Len(cuda_libs) |-> cuda_libs[i][1]],
         soname |-> << Str("libgomp.so.1") >> \o lt.soname
                      \o [i \in 1..Len(cuda_libs) |-> cuda_libs[i][2]]]

\* os.environ after the two joins.
ExportDeps(env, d) ==
    EnvSet(EnvSet(env, "DEPS_LIST", Join(d.list, Str(";"))),
           "DEPS_SONAME", Join(d.soname, Str(";")))

----------------------------------------------------------------------------
(* The wrapper script written by main *)

ArrayKeys == {"DEPS_LIST", "DEPS_SONAME"}

\* "{item}" as written into the script
Quote(s) == <<"\"">> \o s \o <<"\"">>

\* The text written for one environment: an array of quoted lines for each
\* of the two list keys, a quoted export for every other key, the call line.
WrapperScript(env, path) ==
    [arrays  |-> [k \in (DOMAIN env) \cap ArrayKeys |->
                    LET values == Split(env[k], ";")
                    IN  [i \in 1..Len(values) |-> Quote(values[i])]],
     exports |-> [k \in (DOMAIN env) \ ArrayKeys |-> Quote(env[k])],
     call    |-> <<"cd /pytorch && ">> \o path \o <<"/build_common.sh">>]

NoScript == [arrays |-> <<>>, exports |-> <<>>, call |-> <<>>]

----------------------------------------------------------------------------
(* get_manywheel_path *)

Digits == {"0", "1", "2", "3", "4", "5", "6", "7", "8", "9"}

DigitVal(d) ==
    CASE d = "0" -> 0 [] d = "1" -> 1 [] d = "2" -> 2 [] d = "3" -> 3
      [] d = "4" -> 4 [] d = "5" -> 5 [] d = "6" -> 6 [] d = "7" -> 7
      [] d = "8" -> 8 [] d = "9" -> 9

\* int(s) succeeds
IsInt(s) == s # <<>> /\ \A i \in 1..Len(s) : s[i] \in Digits

RECURSIVE ToInt(_)
ToInt(s) == IF s = <<>> THEN 0
            ELSE 10 * ToInt(SubSeq(s, 1, Len(s) - 1)) + DigitVal(s[Len(s)])

\* pytorch_version.split('.')[:2]
FirstTwo(version) ==
    LET parts == Split(version, ".")
    IN  SubSeq(parts, 1, IF Len(parts) < 2 THEN Len(parts) ELSE 2)

\* major, minor = map(int, ...): ValueError on a non-integer part or on
\* fewer than two parts.
ParseVersion(version) ==
    LET parts == FirstTwo(version)
    IN  IF Len(parts) = 2 /\ IsInt(parts[1]) /\ IsInt(parts[2])
        THEN [ok |-> TRUE, major |-> ToInt(parts[1]), minor |-> ToInt(parts[2])]
        ELSE [ok |-> FALSE, major |-> 0, minor |-> 0]

\* The threshold with the major version's own comparison lost.
UsesBuiltin_MinorOnly(major, minor) == major >= 2 /\ minor >= 6

\* The 2.6 test
UsesBuiltin(major, minor) == (major > 2) \/ (major = 2 /\ minor >= 6)

BuiltinPath == Str("/pytorch/.ci/manywheel")
BuilderPath == Str("/pytorch_builder/manywheel")

Cmd(name, arg) == [cmd |-> name, arg |-> arg]

NoBuilder == [present |-> FALSE, branch |-> <<>>, scripts |-> FALSE]

\* What the remote can answer to the clone of a release branch.
RemoteAnswers == {"unreachable", "no_scripts", "ok"}

\* git clone -b <branch> ... /pytorch_builder exits 0
CloneSucceeds(f, remote) == ~f.builder.present /\ remote # "unreachable"

\* One call on filesystem f: the commands started, the exception raised
\* ("" if none), the value returned and the filesystem left.
GetManywheelPath(version, f, remote) ==
    LET v == ParseVersion(version)
    IN  IF ~v.ok
        THEN [raised |-> "ValueError", location |-> <<>>, cmds |-> <<>>, fs |-> f]
        ELSE IF UsesBuiltin(v.major, v.minor)
        THEN [raised   |-> IF f.builtinScripts THEN "" ELSE "CalledProcessError",
              location |-> IF f.builtinScripts THEN BuiltinPath ELSE <<>>,
              cmds     |-> << Cmd("chmod builtin", <<>>) >>,
              fs       |-> f]
        ELSE LET branch == <<v.major, v.minor>>
                 clone  == Cmd("git clone", branch)
             IN  IF ~CloneSucceeds(f, remote)
                 THEN [raised |-> "CalledProcessError", location |-> <<>>,
                       cmds |-> << clone >>, fs |-> f]
                 ELSE LET g == [f EXCEPT !.builder =
                                   [present |-> TRUE, branch |-> branch,
                                    scripts |-> remote = "ok"]]
                      IN  [raised   |-> IF g.builder.scripts THEN ""
                                        ELSE "CalledProcessError",
                           location |-> IF g.builder.scripts THEN BuilderPath
                                        ELSE <<>>,
                           cmds     |-> << clone, Cmd("chmod builder", <<>>) >>,
                           fs       |-> g]

----------------------------------------------------------------------------
(* ensure_wheels_are_saved *)

InternalDir == Str("/wheelhouse118/")
DistDir == <<"/py", "torch", "/dist/">>

\* The wheel the toolchain builds for one Python version.
BuiltWheel(py) == [name |-> <<"torch", "-cp">> \o py \o Str(".whl"), data |-> "built"]

\* Wheel files that may lie elsewhere on the machine.
CachedTorch == [dir |-> Str("/root/.cache/pip/"), name |-> <<"torch", "-old.whl">>,
                data |-> "cached"]
OtherWheel == [dir |-> Str("/opt/"), name |-> Str("numpy.whl"), data |-> "other"]

\* shutil.copy of each wheel to final_package_dir/basename: a file of the
\* same name is overwritten.
CopyAll(final, wheels) ==
    {x \in final : \A w \in wheels : w.name # x.name}
        \cup {[name |-> w.name, data |-> w.data] : w \in wheels}

\* os.makedirs without exist_ok: an existing directory is an error.
MakeDirs_NoExistOk(f) ==
    IF f.finalDir THEN [ok |-> FALSE, fs |-> f]
    ELSE IF f.finalCreatable THEN [ok |-> TRUE, fs |-> [f EXCEPT !.finalDir = TRUE]]
    ELSE [ok |-> FALSE, fs |-> f]

\* os.makedirs(final_package_dir, exist_ok=True)
MakeDirs(f) ==
    IF f.finalDir THEN [ok |-> TRUE, fs |-> f]
    ELSE IF f.finalCreatable THEN [ok |-> TRUE, fs |-> [f EXCEPT !.finalDir = TRUE]]
    ELSE [ok |-> FALSE, fs |-> f]

\* Passes 1 and 2: if the glob found wheels, make the directory, copy each.
CopyPass(f, wheels) ==
    IF wheels = {} THEN [ok |-> TRUE, fs |-> f]
    ELSE LET m == MakeDirs(f)
         IN  IF ~m.ok THEN [ok |-> FALSE, fs |-> f]
             ELSE [ok |-> TRUE, fs |-> [m.fs EXCEPT !.final = CopyAll(@, wheels)]]

\* find / -name '*.whl', then the filter "torch" in w on the whole path.
TorchWheels(f) ==
    LET found ==
            {[path |-> InternalDir \o w.name, name |-> w.name, data |-> w.data] :
                w \in f.internal}
            \cup {[path |-> DistDir \o w.name, name |-> w.name, data |-> w.data] :
                w \in f.dist}
            \cup {[path |-> Str("/remote/wheelhouse118/") \o w.name,
                   name |-> w.name, data |-> w.data] : w \in f.final}
            \cup {[path |-> w.dir \o w.name, name |-> w.name, data |-> w.data] :
                w \in f.elsewhere}
    IN  {w \in found : Contains(w.path, "torch")}

\* One call on filesystem f: the exception raised ("" if none), the
\* filesystem left, the subprocesses started.  The wheels pass 4 finds have
\* distinct basenames here, so the order of its copies does not matter.
EnsureWheelsAreSaved(f) ==
    LET p1 == CopyPass(f, f.internal)
    IN  IF ~p1.ok THEN [raised |-> "OSError", fs |-> p1.fs, cmds |-> <<>>]
        ELSE
        LET p2 == CopyPass(p1.fs, p1.fs.dist)
        IN  IF ~p2.ok THEN [raised |-> "OSError", fs |-> p2.fs, cmds |-> <<>>]
            ELSE
            LET g == p2.fs
                final_wheels == IF g.finalDir THEN g.final ELSE {}
                all_wheels == TorchWheels(g)
                find == << Cmd("find", <<>>) >>
            IN  IF final_wheels # {} THEN [raised |-> "", fs |-> g, cmds |-> <<>>]
                ELSE IF all_wheels = {} THEN [raised |-> "", fs |-> g, cmds |-> find]
                ELSE IF ~g.finalDir
                THEN [raised |-> "FileNotFoundError", fs |-> g, cmds |-> find]
                ELSE [raised |-> "",
                      fs |-> [g EXCEPT !.final = CopyAll(@, all_wheels)],
                      cmds |-> find]

----------------------------------------------------------------------------
(* main *)

\* py_version.strip()
RECURSIVE Strip(_)
Strip(s) ==
    IF s = <<>> THEN s
    ELSE IF Head(s) = " " THEN Strip(Tail(s))
    ELSE IF s[Len(s)] = " " THEN Strip(SubSeq(s, 1, Len(s) - 1))
    ELSE s

\* --pytorch-version values followed through main
MainVersions ==
    { <<"2", ".", "7", ".", "0">>, <<"2", ".", "4", ".", "1">>, <<"a", "b", "c">> }

\* The fields of "3.10, 3.11" and the like after split(',')
PyVersionStrings == { Str("3.10"), <<" ", "3.11">> }

PyVersionLists == UNION {[1..n -> PyVersionStrings] : n \in 1..MaxVersions}

Event(kind, py, status) == [ev |-> kind, py |-> py, status |-> status]

\* Where the loop goes after an iteration: the next version or the last scan.
LoopNext(i, n) == IF i < n THEN "generate" ELSE "final_scan"

\* The scan done only in the except branch.
AfterExecute_ScanOnFailure(status, i, n) ==
    IF status # 0 THEN "scan" ELSE LoopNext(i, n)

\* After the try/except around the wrapper run: the scan, whatever the status.
AfterExecute(status, i, n) == "scan"

Fail(exc) ==
    /\ pc' = "failed"
    /\ exitStatus' = 1
    /\ error' = exc

\* setup_cuda_env (with setup_dependency_bundling) and the request's own
\* variables.
Setup ==
    /\ pc = "start"
    /\ \E osRelease \in BOOLEAN, os \in OsNames :
        LET env0 == EnvSet(environ, "USE_CUSPARSELT", Str("1"))
            d    == DepsLists(os, env0)
            env1 == ExportDeps(env0, d)
            env2 == EnvSet(EnvSet(env1, "PYTORCH_BUILD_VERSION", argVersion),
                           "OVERRIDE_PACKAGE_VERSION", argVersion \o <<"+cu", "118">>)
        IN  /\ cmdLog' = Append(cmdLog, Cmd("awk", <<>>))
            /\ IF osRelease
               THEN /\ deps' = d
                    /\ environ' = env2
                    /\ pc' = "locate"
                    /\ UNCHANGED <<exitStatus, error>>
               ELSE /\ environ' = env0
                    /\ Fail("CalledProcessError")
                    /\ UNCHANGED deps
    /\ UNCHANGED <<argVersion, pyVersions, osName, manywheel_path, script, fs,
                   events, idx, calls>>

\* manywheel_path = get_manywheel_path(args.pytorch_version)
Locate ==
    /\ pc = "locate"
    /\ \E remote \in RemoteAnswers :
        LET r == GetManywheelPath(argVersion, fs, remote)
        IN  /\ cmdLog' = cmdLog \o r.cmds
            /\ fs' = r.fs
            /\ IF r.raised = ""
               THEN /\ manywheel_path' = r.location
                    /\ pc' = "generate"
                    /\ UNCHANGED <<exitStatus, error>>
               ELSE /\ Fail(r.raised)
                    /\ UNCHANGED manywheel_path
    /\ UNCHANGED <<argVersion, pyVersions, osName, environ, deps, script,
                   events, idx, calls>>

\* The head of one iteration: DESIRED_PYTHON, the wrapper written, chmod +x.
GenerateScript ==
    /\ pc = "generate"
    /\ idx < Len(pyVersions)
    /\ idx' = idx + 1
    /\ environ' = EnvSet(environ, "DESIRED_PYTHON", Strip(pyVersions[idx + 1]))
    /\ script' = WrapperScript(environ', manywheel_path)
    /\ cmdLog' = Append(cmdLog, Cmd("chmod wrapper", <<>>))
    /\ pc' = "execute"
    /\ UNCHANGED <<argVersion, pyVersions, osName, deps, manywheel_path, fs,
                   events, exitStatus, error, calls>>

\* subprocess.run of the wrapper: the toolchain exits with some status and
\* leaves the wheel for DESIRED_PYTHON in none, one or both of its output
\* directories; CalledProcessError is caught.
ExecuteScript ==
    /\ pc = "execute"
    /\ \E status \in {0, 1}, intoInternal \in BOOLEAN, intoDist \in BOOLEAN :
        LET w == BuiltWheel(environ["DESIRED_PYTHON"])
        IN  /\ fs' = [fs EXCEPT
                        !.internal = IF intoInternal THEN CopyAll(@, {w}) ELSE @,
                        !.dist = IF intoDist THEN CopyAll(@, {w}) ELSE @]
            /\ events' = Append(events, Event("exec", environ["DESIRED_PYTHON"], status))
            /\ pc' = AfterExecute(status, idx, Len(pyVersions))
    /\ cmdLog' = Append(cmdLog, Cmd("wrapper", <<>>))
    /\ UNCHANGED <<argVersion, pyVersions, osName, environ, deps, manywheel_path,
                   script, idx, exitStatus, error, calls>>

\* ensure_wheels_are_saved() at the end of an iteration
Scan ==
    /\ pc = "scan"
    /\ LET r == EnsureWheelsAreSaved(fs)
       IN  /\ fs' = r.fs
           /\ cmdLog' = cmdLog \o r.cmds
           /\ events' = Append(events, Event("scan", <<>>, 0))
           /\ IF r.raised = ""
              THEN /\ pc' = LoopNext(idx, Len(pyVersions))
                   /\ UNCHANGED <<exitStatus, error>>
              ELSE Fail(r.raised)
    /\ UNCHANGED <<argVersion, pyVersions, osName, environ, deps, manywheel_path,
                   script, idx, calls>>

\* ensure_wheels_are_saved() after the loop, then the normal end of main
FinalScan ==
    /\ pc = "final_scan"
    /\ LET r == EnsureWheelsAreSaved(fs)
       IN  /\ fs' = r.fs
           /\ cmdLog' = cmdLog \o r.cmds
           /\ events' = Append(events, Event("scan", <<>>, 0))
           /\ IF r.raised = ""
              THEN /\ pc' = "done"
                   /\ exitStatus' = 0
                   /\ UNCHANGED error
              ELSE Fail(r.raised)
    /\ UNCHANGED <<argVersion, pyVersions, osName, environ, deps, manywheel_path,
                   script, idx, calls>>

\* The filesystems main can start on: no wheel built yet; the final output
\* directory missing (and creatable or not) or there, empty or holding a
\* wheel of an earlier run; a torch wheel in pip's cache or none.
InitialFs ==
    { [internal |-> {}, dist |-> {}, final |-> fin, finalDir |-> fd,
       finalCreatable |-> fc, elsewhere |-> {OtherWheel} \cup cached,
       builtinScripts |-> bs, builder |-> NoBuilder] :
        fin \in {{}, {[name |-> <<"torch", "-old.whl">>, data |-> "kept"]}},
        fd \in BOOLEAN, fc \in BOOLEAN, cached \in {{}, {CachedTorch}},
        bs \in BOOLEAN }

Init ==
    /\ pc = "start"
    /\ argVersion \in MainVersions
    /\ pyVersions \in PyVersionLists
    /\ osName = <<>>
    /\ environ = <<>>
    /\ deps = [list |-> <<>>, soname |-> <<>>]
    /\ manywheel_path = <<>>
    /\ script = NoScript
    /\ fs \in {f \in InitialFs :
                  (f.final # {} => f.finalDir) /\ (f.finalDir => f.finalCreatable)}
    /\ cmdLog = <<>>
    /\ events = <<>>
    /\ idx = 0
    /\ exitStatus = -1
    /\ error = ""
    /\ calls = <<>>

Next ==
    \/ Setup
    \/ Locate
    \/ GenerateScript
    \/ ExecuteScript
    \/ Scan
    \/ FinalScan

Spec == Init /\ [][Next]_vars

----------------------------------------------------------------------------
(* get_manywheel_path on its own: repeated calls on one filesystem *)

\* Dot-separated parts a version string is made of
Components ==
    { Str("0"), Str("1"), Str("2"), Str("4"), Str("6"), Str("7"),
      <<"1", "0">>, Str("x"), <<>> }

VersionStrings ==
    { Join(parts, Str(".")) :
        parts \in UNION {[1..n -> Components] : n \in 1..MaxParts} }

Premounted == [present |-> TRUE, branch |-> <<>>, scripts |-> TRUE]

InitLocate ==
    /\ pc = "locate_calls"
    /\ argVersion \in VersionStrings
    /\ pyVersions = <<>>
    /\ osName = <<>>
    /\ environ = <<>>
    /\ deps = [list |-> <<>>, soname |-> <<>>]
    /\ manywheel_path = <<>>
    /\ script = NoScript
    /\ fs \in { [internal |-> {}, dist |-> {}, final |-> {}, finalDir |-> FALSE,
                 finalCreatable |-> TRUE, elsewhere |-> {},
                 builtinScripts |-> bs, builder |-> b] :
                  bs \in BOOLEAN, b \in {NoBuilder, Premounted} }
    /\ cmdLog = <<>>
    /\ events = <<>>
    /\ idx = 0
    /\ exitStatus = -1
    /\ error = ""
    /\ calls = <<>>

\* One more call with the same version on the filesystem the calls before
\* have left.
LocateCall ==
    /\ pc = "locate_calls"
    /\ Len(calls) < MaxCalls
    /\ \E remote \in RemoteAnswers :
        LET r == GetManywheelPath(argVersion, fs, remote)
        IN  /\ calls' = Append(calls, [raised |-> r.raised, location |-> r.location,
                                       cmds |-> r.cmds])
            /\ cmdLog' = cmdLog \o r.cmds
            /\ fs' = r.fs
            /\ manywheel_path' = r.location
    /\ UNCHANGED <<pc, argVersion, pyVersions, osName, environ, deps, script,
                   events, idx, exitStatus, error>>

NextLocate == LocateCall

SpecLocate == InitLocate /\ [][NextLocate]_vars

----------------------------------------------------------------------------
(* The dependency lists from the resolver to the wrapper's arrays *)

InitDeps ==
    /\ pc = "deps_setup"
    /\ argVersion = <<>>
    /\ pyVersions = <<>>
    /\ osName \in OsNames
    /\ environ \in {<<>>} \cup {EnvSet(<<>>, "USE_CUSPARSELT", v) : v \in FlagValues}
    /\ deps = [list |-> <<>>, soname |-> <<>>]
    /\ manywheel_path = BuiltinPath
    /\ script = NoScript
    /\ fs = [internal |-> {}, dist |-> {}, final |-> {}, finalDir |-> FALSE,
             finalCreatable |-> TRUE, elsewhere |-> {},
             builtinScripts |-> TRUE, builder |-> NoBuilder]
    /\ cmdLog = <<>>
    /\ events = <<>>
    /\ idx = 0
    /\ exitStatus = -1
    /\ error = ""
    /\ calls = <<>>

\* setup_dependency_bundling() on the OS name awk printed
SetupDependencyBundling ==
    /\ pc = "deps_setup"
    /\ cmdLog' = Append(cmdLog, Cmd("awk", <<>>))
    /\ deps' = DepsLists(osName, environ)
    /\ environ' = ExportDeps(environ, deps')
    /\ pc' = "deps_generate"
    /\ UNCHANGED <<argVersion, pyVersions, osName, manywheel_path, script, fs,
                   events, idx, exitStatus, error, calls>>

\* The wrapper written for the environment as it stands
GenerateArrays ==
    /\ pc = "deps_generate"
    /\ script' = WrapperScript(environ, manywheel_path)
    /\ pc' = "deps_done"
    /\ UNCHANGED <<argVersion, pyVersions, osName, environ, deps, manywheel_path,
                   fs, cmdLog, events, idx, exitStatus, error, calls>>

NextDeps ==
    \/ SetupDependencyBundling
    \/ GenerateArrays

SpecDeps == InitDeps /\ [][NextDeps]_vars

----------------------------------------------------------------------------
(* ";".join and the generator's split on lists of any strings *)

Alphabet == {"a", ";"}

Items == UNION {[1..n -> Alphabet] : n \in 0..MaxItemLen}

ItemLists == UNION {[1..n -> Items] : n \in 0..MaxItems}

InitRoundTrip ==
    /\ pc = "deps_export"
    /\ argVersion = <<>>
    /\ pyVersions = <<>>
    /\ osName = <<>>
    /\ environ = <<>>
    /\ \E l \in ItemLists : deps = [list |-> l, soname |-> l]
    /\ manywheel_path = BuiltinPath
    /\ script = NoScript
    /\ fs = [internal |-> {}, dist |-> {}, final |-> {}, finalDir |-> FALSE,
             finalCreatable |-> TRUE, elsewhere |-> {},
             builtinScripts |-> TRUE, builder |-> NoBuilder]
    /\ cmdLog = <<>>
    /\ events = <<>>
    /\ idx = 0
    /\ exitStatus = -1
    /\ error = ""
    /\ calls = <<>>

\* The two joins of setup_dependency_bundling on the lists as given
ExportLists ==
    /\ pc = "deps_export"
    /\ environ' = ExportDeps(environ, deps)
    /\ pc' = "deps_generate"
    /\ UNCHANGED <<argVersion, pyVersions, osName, deps, manywheel_path, script,
                   fs, cmdLog, events, idx, exitStatus, error, calls>>

NextRoundTrip ==
    \/ ExportLists
    \/ GenerateArrays

SpecRoundTrip == InitRoundTrip /\ [][NextRoundTrip]_vars

----------------------------------------------------------------------------
(* Properties *)

Terminated == pc \in {"done", "failed"}

\* The exec events, in order
Attempts == SelectSeq(events, LAMBDA e : e.ev = "exec")

\* A wheel for Python version py lies in the final output directory.
Recovered(py) == \E w \in fs.final : w.name = BuiltWheel(py).name

\* Some requested build failed and left no wheel in the output directory.
FailedUnrecovered ==
    \E i \in 1..Len(events) :
        /\ events[i].ev = "exec"
        /\ events[i].status # 0
        /\ ~Recovered(events[i].py)

\* C1: when the request has run to its end, the exit status is non-zero if
\* and only if some requested build both exited non-zero and has no wheel
\* in the final output directory.
C1_ExitStatusReflectsFailure ==
    pc = "done" => (exitStatus # 0 <=> FailedUnrecovered)

\* C2: every execution of the wrapper is followed at once by a scanner
\* invocation, whatever its exit status: an exec event is either followed
\* by a scan event or is the last event with the scan about to run; and a
\* request that ends normally has run exec, scan for each version in turn
\* and exactly one more scan after the loop.
C2_ScanAfterEveryAttempt ==
    /\ \A i \in 1..Len(events) :
         events[i].ev = "exec" =>
            \/ i < Len(events) /\ events[i + 1].ev = "scan"
            \/ i = Len(events) /\ pc = "scan"
    /\ pc = "done" =>
         /\ Len(events) = 2 * Len(pyVersions) + 1
         /\ \A k \in 1..Len(pyVersions) :
              events[2 * k - 1].ev = "exec" /\ events[2 * k].ev = "scan"
         /\ events[Len(events)].ev = "scan"

\* C2 witness: a request of two versions, one run exiting zero and one
\* non-zero, has ended normally.
C2_Witness ==
    /\ pc = "done"
    /\ \E i, j \in 1..Len(events) :
         /\ events[i].ev = "exec" /\ events[i].status = 0
         /\ events[j].ev = "exec" /\ events[j].status # 0

\* C3: a non-zero exit of the toolchain does not abort the request: when a
\* process in which some run exited non-zero has ended, the wrapper has been
\* executed exactly once for every requested version, in the order given.
C3_EveryVersionExecutedOnce ==
    (Terminated /\ \E i \in 1..Len(events) :
                      events[i].ev = "exec" /\ events[i].status # 0)
        => /\ Len(Attempts) = Len(pyVersions)
           /\ \A i \in 1..Len(pyVersions) : Attempts[i].py = Strip(pyVersions[i])

\* C4: a version string that cannot be parsed aborts the request before any
\* subprocess has been started.
C4_AbortBeforeAnySubprocess ==
    (pc = "failed" /\ error = "ValueError" /\ ~ParseVersion(argVersion).ok)
        => cmdLog = <<>>

\* C5: the scanner never fails: the process never ends by an exception
\* raised out of a scanner invocation.
C5_ScannerNeverFails ==
    pc = "failed" => (events = <<>> \/ events[Len(events)].ev # "scan")

\* "{item}" read back
Unquote(line) == SubSeq(line, 2, Len(line) - 1)

\* The items of the array written for key
ArrayItems(key) ==
    [i \in 1..Len(script.arrays[key]) |-> Unquote(script.arrays[key][i])]

\* C6: for every OS name and every USE_CUSPARSELT setting the two lists
\* have equal length, the soname at position i is the file name of the path
\* at position i, and the arrays written into the wrapper hold the same
\* items at the same positions.
C6_PairingInvariant ==
    /\ pc # "deps_setup" =>
         /\ Len(deps.list) = Len(deps.soname)
         /\ Len(deps.list) >= 15
         /\ \A i \in 1..Len(deps.list) :
              /\ i <= Len(deps.soname)
              /\ Len(deps.list[i]) = 2
              /\ Str(deps.list[i][2]) = deps.soname[i]
    /\ pc = "deps_done" =>
         /\ ArrayItems("DEPS_LIST") = deps.list
         /\ ArrayItems("DEPS_SONAME") = deps.soname

\* C6 witness: on Ubuntu with USE_CUSPARSELT set to "1" the arrays have
\* been written with 16 items, the libcusparseLt pair in second place.
C6_Witness ==
    /\ pc = "deps_done"
    /\ osName = Str("Ubuntu")
    /\ "USE_CUSPARSELT" \in DOMAIN environ
    /\ Len(script.arrays["DEPS_LIST"]) = 16
    /\ ArrayItems("DEPS_SONAME")[2] = Str("libcusparseLt.so.0")

NoSemicolon(l) == \A i \in 1..Len(l) : ~Contains(l[i], ";")

C8_LocatorBranch ==
    \A i \in 1..Len(calls) :
        LET c == calls[i]
            v == ParseVersion(argVersion)
            noClone == \A j \in 1..Len(c.cmds) : c.cmds[j].cmd # "git clone"
        IN  /\ v.ok =>
                IF v.major > 2 \/ (v.major = 2 /\ v.minor >= 6)
                THEN /\ noClone
                     /\ c.raised = "" => c.location = BuiltinPath
                ELSE /\ c.cmds # <<>>
                     /\ c.cmds[1] = Cmd("git clone", <<v.major, v.minor>>)
                     /\ c.raised = "" =>
                          /\ c.location = BuilderPath
                          /\ fs.builder.branch = <<v.major, v.minor>>
            /\ (argVersion = <<"2", ".", "7", ".", "0">> /\ c.raised = "")
                  => c.location = BuiltinPath /\ noClone
            /\ (argVersion = <<"2", ".", "4", ".", "1">> /\ c.raised = "")
                  => /\ c.location = BuilderPath
                     /\ c.cmds[1] = Cmd("git clone", <<2, 4>>)

\* C8 witness: a call for "2.4.1" has returned.
C8_Witness ==
    /\ argVersion = <<"2", ".", "4", ".", "1">>
    /\ Len(calls) >= 1
    /\ calls[1].raised = ""
    /\ fs.builder.present

\* C9: a second call with the same version, on the filesystem the first
\* call left, succeeds and returns the same location.
C9_LocateIdempotent ==
    (Len(calls) >= 2 /\ calls[1].raised = "")
        => (calls[2].raised = "" /\ calls[2].location = calls[1].location)

\* C10: the scanner run a second time on the filesystem its first run left
\* (the scan after the loop, right after the last iteration's scan) raises
\* nothing and leaves the final output directory as it was.
C10_RecoveryIdempotent ==
    [][pc = "final_scan" =>
          /\ pc' = "done"
          /\ fs'.final = fs.final
          /\ fs'.finalDir = fs.finalDir]_vars

\* C10 witness: the request has ended after the two scans in a row, with a
\* built wheel in the final output directory.
C10_Witness ==
    /\ pc = "done"
    /\ Len(events) >= 3
    /\ \E w \in fs.final : w.data = "built"
    /\ fs.finalDir

====
